---- MODULE Spec2Model ----
(***************************************************************************)
(* Model of the Oil & Gas chatbot's incremental artifact pipeline:         *)
(* the Article Store written by save_to_csv (scrapers/utils.py), the       *)
(* embedding pipeline (ml/semantic_embeddings.py), the classifier trainer  *)
(* (ml/text_classifier.py), the cluster builder (ml/topic_clustering.py)   *)
(* and the chatbot's model load and search (ml/chatbot.py).                *)
(*                                                                         *)
(* Files are modelled by their observable content.  A pickle file is       *)
(* "missing", "partial" (opened with 'wb', so truncated, and not yet       *)
(* completely dumped) or complete ("hash": the current format with the     *)
(* ordered array and the hash-indexed map; "legacy": the ordered array     *)
(* only).                                                                  *)
(***************************************************************************)
EXTENDS Integers, Sequences, FiniteSets, TLC

\* ---------------------------------------------------------------- bounds
MaxLinks == 5         \* distinct article links
MaxEmbLinks == 2      \* links saved under in the embedding specifications
MaxContents == 3      \* distinct article contents
MaxConcContents == 2  \* contents saved in the concurrent specification
MaxBatch == 1         \* articles in one save_to_csv call
MaxLegacy == 2        \* vectors in a legacy, index-based embeddings file
MaxMinNew == 2        \* largest min_new_articles passed to train_classifier
MaxMetric == 2        \* distinct accuracy values a training can report

Links == 1..MaxLinks
Contents == 1..MaxContents
Rows == [link : Links, content : Contents]

VARIABLES
    storeExists,    \* articles.csv exists
    store,          \* its rows, in file order
    embFile,        \* embeddings.pkl
    processedFile,  \* processed_articles.json
    embPc,          \* position of a create_embeddings run in progress
    embLocal,       \* its locals: df, embeddings_by_hash, ordered_embeddings
    embRun,         \* record of the last create_embeddings run
    chat,           \* the OilGasChatbot object
    searchUsed,     \* the (row, vector) pairs the last search scored
    clfFile,        \* classifier.pkl
    labelsFile,     \* labels.json
    clfState,       \* classifier_state.json
    clfRun,         \* record of the last train_classifier call
    cluFile,        \* clusters.pkl
    cluState,       \* cluster_state.json
    cluRun,         \* record of the last create_clusters call
    lastOp,         \* the operation that took the last step
    ranking,        \* one call of search_articles: its inputs and its result
    pipeline,       \* one run of train_all.main: position and stages attempted
    entFile,        \* entities.json and ner_processed.json
    persist,        \* the last write of a file: attempts made and how it ended
    scrapers        \* the scraper threads of run_all_scrapers_parallel

embVars == <<embFile, processedFile, embPc, embLocal, embRun>>
chatVars == <<chat, searchUsed>>
clfVars == <<clfFile, labelsFile, clfState, clfRun>>
cluVars == <<cluFile, cluState, cluRun>>
storeVars == <<storeExists, store>>
extVars == <<ranking, pipeline, entFile, persist, scrapers>>
vars == <<storeVars, embVars, chatVars, clfVars, cluVars, lastOp, extVars>>

\* ------------------------------------------------------------ sequences
Min(a, b) == IF a < b THEN a ELSE b

RECURSIVE SeqsUpTo(_, _)
SeqsUpTo(S, n) ==
    IF n = 0 THEN {<<>>}
    ELSE LET shorter == SeqsUpTo(S, n - 1)
         IN shorter \cup {Append(s, x) : s \in {t \in shorter : Len(t) = n - 1}, x \in S}

Indices(s) == [i \in 1..Len(s) |-> i]

Count(s, x) == Cardinality({i \in 1..Len(s) : s[i] = x})

\* ------------------------------------------------------ content of a row
\* The store has the columns source, date, link, content: row.get('title', '')
\* is '' for every row.
NoTitle == ""

\* Contents 2k and 2k+1 agree on their first 200 characters and differ after.
Prefix200(content) == content \div 2

\* content[:1000] of the embedding text: contents differ within it.
Prefix1000(content) == content

\* md5 of "title|content": one digest per (title, content).
get_article_hash(title, content) == <<title, content>>

RowHash(row) == get_article_hash(NoTitle, row.content)

\* f"{title}. {content[:1000]}"
EmbedText(title, content) == <<title, Prefix1000(content)>>

\* SentenceTransformer.encode of one text: a vector determined by the text,
\* named by the content prefix it encodes.
EncodeOne(text) == text[2]

Encode(texts) == [i \in 1..Len(texts) |-> EncodeOne(texts[i])]

\* np.zeros(768)
ZeroVector == 0

Vectors == {EncodeOne(EmbedText(NoTitle, c)) : c \in Contents}

\* ---------------------------------------------------------- save_to_csv
\* drop_duplicates(subset=['link'], keep='last')
DropDuplicatesKeepLast(df) ==
    LET keep(i) == \A j \in (i + 1)..Len(df) : df[j].link # df[i].link
    IN [k \in 1..Cardinality({i \in 1..Len(df) : keep(i)}) |->
          df[CHOOSE i \in 1..Len(df) :
                /\ keep(i)
                /\ Cardinality({j \in 1..i : keep(j)}) = k]]

CombinedDf(new_df) ==
    IF storeExists THEN DropDuplicatesKeepLast(store \o new_df) ELSE new_df

SaveToCsv(new_df) ==
    /\ storeExists' = TRUE
    /\ store' = CombinedDf(new_df)
    /\ lastOp' = "save_to_csv"
    /\ UNCHANGED <<extVars, embVars, chatVars, clfVars, cluVars>>

\* ---------------------------------------------------- create_embeddings
EmptyMap == [h \in {} |-> ZeroVector]

Put(map, key, value) ==
    [h \in DOMAIN map \cup {key} |-> IF h = key THEN value ELSE map[h]]

MissingFile == [kind |-> "missing", ordered |-> <<>>, byHash |-> EmptyMap]
PartialFile == [kind |-> "partial", ordered |-> <<>>, byHash |-> EmptyMap]
HashFile(ordered, map) == [kind |-> "hash", ordered |-> ordered, byHash |-> map]
LegacyFile(ordered) == [kind |-> "legacy", ordered |-> ordered, byHash |-> EmptyMap]

\* The old format: old_embeddings[idx] goes to the hash of row idx of the
\* current df, for the first n rows, a later row overwriting an earlier one.
\* A conversion in which the first row of a hash keeps its vector.
RECURSIVE ConvertLegacyFirstWins(_, _, _)
ConvertLegacyFirstWins(df, old_embeddings, n) ==
    IF n = 0 THEN EmptyMap
    ELSE LET map == ConvertLegacyFirstWins(df, old_embeddings, n - 1)
         IN IF n <= Len(old_embeddings) /\ RowHash(df[n]) \notin DOMAIN map
            THEN Put(map, RowHash(df[n]), old_embeddings[n])
            ELSE map

RECURSIVE ConvertLegacy(_, _, _)
ConvertLegacy(df, old_embeddings, n) ==
    IF n = 0 THEN EmptyMap
    ELSE LET map == ConvertLegacy(df, old_embeddings, n - 1)
         IN IF n <= Len(old_embeddings)
            THEN Put(map, RowHash(df[n]), old_embeddings[n])
            ELSE map

\* embeddings_by_hash as loaded; pickle.load of a partial file raises.
LoadRaises(file, force_rebuild) == file.kind = "partial" /\ ~force_rebuild

\* A load that keeps the entries of the articles now in the df only.
LoadEmbeddingsByHashPruned(file, df, force_rebuild) ==
    IF file.kind = "missing" \/ force_rebuild THEN EmptyMap
    ELSE IF file.kind = "hash"
    THEN [h \in {g \in DOMAIN file.byHash : \E i \in 1..Len(df) : RowHash(df[i]) = g}
             |-> file.byHash[h]]
    ELSE ConvertLegacy(df, file.ordered, Len(df))

LoadEmbeddingsByHash(file, df, force_rebuild) ==
    IF file.kind = "missing" \/ force_rebuild THEN EmptyMap
    ELSE IF file.kind = "hash" THEN file.byHash
    ELSE ConvertLegacy(df, file.ordered, Len(df))

\* A run that embeds every row again, cached or not.
ArticlesNeedingEmbeddingsAll(df, map) ==
    [k \in 1..Len(df) |->
        [idx |-> k, hash |-> RowHash(df[k]), text |-> EmbedText(NoTitle, df[k].content)]]

\* The rows whose hash is not in embeddings_by_hash, in df order.
ArticlesNeedingEmbeddings(df, map) ==
    LET idxs == SelectSeq(Indices(df), LAMBDA i : RowHash(df[i]) \notin DOMAIN map)
    IN [k \in 1..Len(idxs) |->
          [idx |-> idxs[k],
           hash |-> RowHash(df[idxs[k]]),
           text |-> EmbedText(NoTitle, df[idxs[k]].content)]]

RECURSIVE AddNewEmbeddings(_, _, _, _)
AddNewEmbeddings(map, articles, new_embeddings, n) ==
    IF n = 0 THEN map
    ELSE Put(AddNewEmbeddings(map, articles, new_embeddings, n - 1),
             articles[n].hash, new_embeddings[n])

\* An ordered array with one entry per cached hash of the df instead of one per row.
OrderedEmbeddingsPerHash(df, map) ==
    LET firsts == SelectSeq(Indices(df),
                            LAMBDA i : \A j \in 1..(i - 1) : RowHash(df[j]) # RowHash(df[i]))
    IN [k \in 1..Len(firsts) |->
          IF RowHash(df[firsts[k]]) \in DOMAIN map
          THEN map[RowHash(df[firsts[k]])] ELSE ZeroVector]

OrderedEmbeddings(df, map) ==
    [i \in 1..Len(df) |->
        IF RowHash(df[i]) \in DOMAIN map THEN map[RowHash(df[i])] ELSE ZeroVector]

\* A processed-hash file that lists only the hashes embedded by this run.
ProcessedHashesNewOnly(map, encoded) == {encoded[k] : k \in 1..Len(encoded)}

\* save_processed_hashes(set(embeddings_by_hash.keys()))
ProcessedHashes(map, encoded) == DOMAIN map

\* What one run computes from the df and the file it read.
EmbeddingsComputed(file, df, force_rebuild) ==
    LET loaded == LoadEmbeddingsByHash(file, df, force_rebuild)
        articles == ArticlesNeedingEmbeddings(df, loaded)
        new_embeddings == Encode([k \in 1..Len(articles) |-> articles[k].text])
        map == AddNewEmbeddings(loaded, articles, new_embeddings, Len(articles))
    IN [df |-> df,
        map |-> map,
        ordered |-> OrderedEmbeddings(df, map),
        encoded |-> [k \in 1..Len(articles) |-> articles[k].hash]]

NoEmbRun ==
    [done |-> FALSE, force |-> FALSE, df |-> <<>>, encoded |-> <<>>,
     beforeKind |-> "missing", repeat |-> FALSE]

EmbRunRecord(force_rebuild, computed, before) ==
    [done |-> TRUE, force |-> force_rebuild, df |-> computed.df,
     encoded |-> computed.encoded,
     beforeKind |-> before.kind,
     repeat |-> embRun.done /\ embRun.df = computed.df]

\* A whole run that completes, with no other process taking a step during it:
\* what it does to the files of the embedding pipeline.
CreateEmbeddingsCall(force_rebuild) ==
    /\ embPc \in {"idle", "raised"}
    /\ storeExists
    /\ ~LoadRaises(embFile, force_rebuild)
    /\ LET computed == EmbeddingsComputed(embFile, store, force_rebuild)
       IN /\ embFile' = HashFile(computed.ordered, computed.map)
          /\ processedFile' = ProcessedHashes(computed.map, computed.encoded)
          /\ embRun' = EmbRunRecord(force_rebuild, computed, embFile)
    /\ lastOp' = "create_embeddings"
    /\ UNCHANGED <<embPc, embLocal>>

CreateEmbeddings(force_rebuild) ==
    /\ CreateEmbeddingsCall(force_rebuild)
    /\ UNCHANGED <<extVars, storeVars, chatVars, clfVars, cluVars>>

\* A whole run that returns at once, there being no articles.csv (lines 50-52).
CreateEmbeddingsNoStoreCall ==
    /\ embPc \in {"idle", "raised"}
    /\ ~storeExists
    /\ lastOp' = "create_embeddings_returned"
    /\ UNCHANGED embVars

\* A whole run that ends in an exception: of pickle.load, of the model, of
\* open(EMBEDDINGS_PATH, 'wb') (the file is as it was), or of pickle.dump (the
\* file is left truncated).
CreateEmbeddingsRaisesCall(truncated) ==
    /\ embPc \in {"idle", "raised"}
    /\ storeExists
    /\ LoadRaises(embFile, FALSE) => ~truncated
    /\ embFile' = IF truncated THEN PartialFile ELSE embFile
    /\ lastOp' = "create_embeddings_raised"
    /\ UNCHANGED <<processedFile, embPc, embLocal, embRun>>

CreateEmbeddingsRaises(truncated) ==
    /\ CreateEmbeddingsRaisesCall(truncated)
    /\ UNCHANGED <<extVars, storeVars, chatVars, clfVars, cluVars>>

\* The same run step by step, for the processes that run beside it (embRun and
\* lastOp record whole runs only).  It reads articles.csv and embeddings.pkl
\* and computes (lines 47-139) ...
NoLocal == [df |-> <<>>, map |-> EmptyMap, ordered |-> <<>>, encoded |-> <<>>,
            beforeKind |-> "missing"]

EmbBegin ==
    /\ embPc \in {"idle", "raised"}
    /\ storeExists
    /\ ~LoadRaises(embFile, FALSE)
    /\ LET computed == EmbeddingsComputed(embFile, store, FALSE)
       IN embLocal' = [df |-> computed.df, map |-> computed.map,
                       ordered |-> computed.ordered, encoded |-> computed.encoded,
                       beforeKind |-> embFile.kind]
    /\ embPc' = "computed"
    /\ UNCHANGED <<extVars, storeVars, embFile, processedFile, embRun, chatVars, clfVars,
                   cluVars, lastOp>>

\* ... raises at pickle.load when the file it finds is not a complete pickle ...
EmbLoadRaises ==
    /\ embPc \in {"idle", "raised"}
    /\ storeExists
    /\ LoadRaises(embFile, FALSE)
    /\ embLocal' = [NoLocal EXCEPT !.beforeKind = embFile.kind]
    /\ embPc' = "raised"
    /\ UNCHANGED <<extVars, storeVars, embFile, processedFile, embRun, chatVars, clfVars,
                   cluVars, lastOp>>

\* ... open(EMBEDDINGS_PATH, 'wb') truncates the file in place (line 142) ...
EmbOpen ==
    /\ embPc = "computed"
    /\ embFile' = PartialFile
    /\ embPc' = "opened"
    /\ UNCHANGED <<extVars, storeVars, processedFile, embLocal, embRun, chatVars, clfVars,
                   cluVars, lastOp>>

\* ... pickle.dump completes the file (lines 143-146) ...
EmbDump ==
    /\ embPc = "opened"
    /\ embFile' = HashFile(embLocal.ordered, embLocal.map)
    /\ embPc' = "dumped"
    /\ UNCHANGED <<extVars, storeVars, processedFile, embLocal, embRun, chatVars, clfVars,
                   cluVars, lastOp>>

\* ... and save_processed_hashes ends the run (line 149).
EmbSaveProcessed ==
    /\ embPc = "dumped"
    /\ processedFile' = ProcessedHashes(embLocal.map, embLocal.encoded)
    /\ embLocal' = NoLocal
    /\ embPc' = "idle"
    /\ UNCHANGED <<extVars, storeVars, embFile, embRun, chatVars, clfVars, cluVars, lastOp>>

\* The run fails after computing: an exception (or the end of the process)
\* while encoding or while writing; nothing in the run catches it.
EmbRaise ==
    /\ embPc \in {"computed", "opened", "dumped"}
    /\ embLocal' = [NoLocal EXCEPT !.beforeKind = embLocal.beforeKind]
    /\ embPc' = "raised"
    /\ UNCHANGED <<extVars, storeVars, embFile, processedFile, embRun, chatVars, clfVars,
                   cluVars, lastOp>>

\* ------------------------------------------------------------ the chatbot
\* load_models reads articles.csv (lines 44-50) ...
ChatLoadArticles ==
    /\ chat.pc = "new"
    /\ chat' = [chat EXCEPT !.pc = "articles",
                            !.articles = IF storeExists THEN store ELSE <<>>]
    /\ UNCHANGED <<extVars, storeVars, embVars, searchUsed, clfVars, cluVars, lastOp>>

\* ... and then embeddings.pkl (lines 52-59): data.get('embeddings') of a
\* complete file, an empty array when there is none; pickle.load of a partial
\* file raises out of load_models, which is then not loaded.
ChatLoadEmbeddings ==
    /\ chat.pc = "articles"
    /\ chat' = IF embFile.kind = "partial"
               THEN [chat EXCEPT !.pc = "new", !.articles = <<>>, !.sawPartial = TRUE]
               ELSE [chat EXCEPT !.pc = "loaded", !.loaded = TRUE,
                                 !.embeddings = embFile.ordered]
    /\ UNCHANGED <<extVars, storeVars, embVars, searchUsed, clfVars, cluVars, lastOp>>

\* The pairs (row idx of self.articles, self.embeddings[idx]) that
\* search_articles scores: none when either is empty, and an idx beyond the
\* articles is skipped.
SearchPairs(articles, embeddings) ==
    IF Len(embeddings) = 0 \/ Len(articles) = 0 THEN {}
    ELSE {[row |-> articles[i], vector |-> embeddings[i]] :
             i \in 1..Min(Len(articles), Len(embeddings))}

SearchArticles ==
    /\ chat.loaded
    /\ searchUsed' = SearchPairs(chat.articles, chat.embeddings)
    /\ UNCHANGED <<extVars, storeVars, embVars, chat, clfVars, cluVars, lastOp>>

\* search_articles as a whole, on a chatbot that another thread is not
\* loading: load_models first when not loaded (lines 85-86), where pickle.load
\* of a file that is not a complete pickle raises; then the check of lines
\* 88-89.  ranking.pc records how the call ended.
LoadedChat ==
    IF chat.loaded THEN chat
    ELSE [pc |-> "loaded", loaded |-> TRUE,
          articles |-> IF storeExists THEN store ELSE <<>>,
          embeddings |-> embFile.ordered,
          sawPartial |-> chat.sawPartial]

\* Without lines 88-89: cosine_similarity raises on an empty array.
QueryOutcomeUnguarded(articles, embeddings) ==
    IF Len(embeddings) = 0 \/ Len(articles) = 0 THEN "raised" ELSE "ranked"

QueryOutcome(articles, embeddings) ==
    IF Len(embeddings) = 0 \/ Len(articles) = 0 THEN "empty" ELSE "ranked"

QueryEnded(outcome) ==
    [pc |-> outcome, query |-> <<>>, top_k |-> 0, articles |-> <<>>,
     similarities |-> <<>>, results |-> <<>>]

ChatSearch ==
    /\ IF ~chat.loaded /\ embFile.kind = "partial"
       THEN /\ chat' = [chat EXCEPT !.sawPartial = TRUE]
            /\ ranking' = QueryEnded("raised")
            /\ UNCHANGED searchUsed
       ELSE /\ chat' = LoadedChat
            /\ ranking' = QueryEnded(QueryOutcome(LoadedChat.articles,
                                                  LoadedChat.embeddings))
            /\ searchUsed' = SearchPairs(LoadedChat.articles, LoadedChat.embeddings)
    /\ lastOp' = "search_articles"
    /\ UNCHANGED <<storeVars, embVars, clfVars, cluVars, pipeline, entFile, persist, scrapers>>

\* The handler of /search and /api/search (app.py lines 46-127): get_chatbot
\* and load_models, classify_query (which catches its own exceptions),
\* search_articles(query, top_k=10), the filter original_score >= 0.35; any
\* exception becomes the response {'error': str(e)}.  `relevant` says whether
\* a result passes the filter.
WebResponse(outcome, relevant) ==
    CASE outcome = "raised" -> "web_error"
      [] outcome = "empty" -> "web_no_results"
      [] OTHER -> IF relevant THEN "web_results" ELSE "web_no_results"

WebSearch(relevant) ==
    /\ IF ~chat.loaded /\ embFile.kind = "partial"
       THEN /\ chat' = [chat EXCEPT !.sawPartial = TRUE]
            /\ ranking' = QueryEnded(WebResponse("raised", relevant))
            /\ UNCHANGED searchUsed
       ELSE /\ chat' = LoadedChat
            /\ ranking' = QueryEnded(WebResponse(
                              QueryOutcome(LoadedChat.articles, LoadedChat.embeddings),
                              relevant))
            /\ searchUsed' = SearchPairs(LoadedChat.articles, LoadedChat.embeddings)
    /\ lastOp' = "web_search"
    /\ UNCHANGED <<storeVars, embVars, clfVars, cluVars, pipeline, entFile, persist, scrapers>>

\* -------------------------------------------------------- search_articles
\* A lower-cased text is the sequence of its words.  `term in text` of the code
\* is a substring test: a word of the text holds a shorter word of the term
\* ("rigs" holds "rig"), and a term of several words is found where its words
\* follow each other in the text, the last one possibly continued.
Within(t, w) ==
    \/ t = w
    \/ <<t, w>> \in {<<"rig", "rigs">>, <<"price", "prices">>, <<"opec", "opec+">>}

Contains(text, term) ==
    \E i \in 1..(Len(text) - Len(term) + 1) :
        /\ \A j \in 1..(Len(term) - 1) : text[i + j - 1] = term[j]
        /\ Within(term[Len(term)], text[i + Len(term) - 1])

ContainsAny(text, words) == \E w \in words : Contains(text, <<w>>)

RigTerms == {<<"rig", "count">>, <<"active", "rigs">>, <<"rigs", "fell">>,
             <<"rigs", "rose">>}
PriceTerms == {<<"brent">>, <<"wti">>, <<"barrel">>, <<"oil", "price">>,
               <<"crude", "price">>, <<"oil", "fell">>, <<"oil", "rose">>,
               <<"oil", "gained">>, <<"oil", "dropped">>}
OpecTerms == {<<"opec">>, <<"opec+">>}

MatchesRig(query) == Contains(query, <<"rig", "count">>)
MatchesPrice(query) ==
    /\ ContainsAny(query, {"price", "cost"})
    /\ ContainsAny(query, {"oil", "crude", "brent", "wti"})
MatchesOpec(query) == Contains(query, <<"opec">>)

\* required_terms: one list, extended by every topic the query matches.
RequiredTerms(query) ==
    (IF MatchesRig(query) THEN RigTerms ELSE {})
    \cup (IF MatchesPrice(query) THEN PriceTerms ELSE {})
    \cup (IF MatchesOpec(query) THEN OpecTerms ELSE {})

\* A gate that lets every article through.
MatchesRequiredAlways(query, content) == TRUE

\* matches_required: any(term in content_lower for term in required_terms)
MatchesRequired(query, content) ==
    \/ RequiredTerms(query) = {}
    \/ \E term \in RequiredTerms(query) : Contains(content, term)

\* re.findall(r'\b[a-z]{3,}\b', query_lower) minus the stop words: the words
\* of the catalogue shorter than 3 letters, and its stop words.
ShortWords == {"a", "to"}
StopWords == {"what", "news", "the", "latest"}

WordsOf(text) == {text[i] : i \in 1..Len(text)}

QueryKeywords(query) == (WordsOf(query) \ ShortWords) \ StopWords

KeywordMatches(query, content) ==
    Cardinality({kw \in QueryKeywords(query) : Contains(content, <<kw>>)})

\* Scores and boosts are in hundredths.
KeywordBoostPerHit == 5
MaxKeywordBoost == 20
RecencyBoostValue == 10
MaxScore == 100
RecencyWindowDays == 7
CandidateFactor == 5

\* A boost with no cap.
KeywordBoostUncapped(query, content) ==
    KeywordMatches(query, content) * KeywordBoostPerHit

\* keyword_boost = min(0.20, keyword_matches * 0.05)
KeywordBoost(query, content) ==
    Min(MaxKeywordBoost, KeywordMatches(query, content) * KeywordBoostPerHit)

\* An article of self.articles: its content and its date, as days_old =
\* (now - article_date).days, negative for a date after now; NoDate, which is
\* no number of days, when the date is missing or was not parsed (NaT).
NoDate == 99999

Perms(n) == {p \in [1..n -> 1..n] : \A i, j \in 1..n : p[i] = p[j] => i = j}

\* np.argsort(similarities)[::-1]: the indices by descending similarity.  The
\* order of equal similarities is the sorting routine's, not the caller's.
ArgsortDescending(similarities) ==
    {p \in Perms(Len(similarities)) :
        \A i, j \in 1..Len(similarities) :
            i < j => similarities[p[i]] >= similarities[p[j]]}

\* [:top_k * 5]
TopIndices(order, top_k) ==
    SubSeq(order, 1, Min(Len(order), top_k * CandidateFactor))

\* First pass: the top indices that are rows of self.articles and pass the
\* gate, in the order of top_indices.
Candidates(query, articles, top_indices) ==
    SelectSeq(top_indices,
              LAMBDA idx : /\ idx <= Len(articles)
                           /\ MatchesRequired(query, articles[idx].content))

NoIdx == 0

\* most_recent_idx: among the candidates dated within the window, the latest
\* date; of two equal dates the one met first stays.
MostRecentIdx(articles, candidates) ==
    LET eligible == {k \in 1..Len(candidates) :
                        /\ articles[candidates[k]].date # NoDate
                        /\ articles[candidates[k]].date <= RecencyWindowDays}
        age(k) == articles[candidates[k]].date
    IN IF eligible = {} THEN NoIdx
       ELSE candidates[CHOOSE k \in eligible :
                          \A m \in eligible :
                              age(k) < age(m) \/ (age(k) = age(m) /\ k <= m)]

\* A boost for every candidate once one of them is dated within the window.
RecencyBoostInWindow(idx, most_recent_idx) ==
    IF most_recent_idx # NoIdx THEN RecencyBoostValue ELSE 0

\* recency_boost = 0.10 if cand['idx'] == most_recent_idx else 0
RecencyBoost(idx, most_recent_idx) ==
    IF idx = most_recent_idx THEN RecencyBoostValue ELSE 0

\* boosted_score = min(1.0, score + recency_boost + keyword_boost)
BoostedScore(score, recency_boost, keyword_boost) ==
    Min(MaxScore, score + recency_boost + keyword_boost)

\* Second pass: one result per candidate, in the candidates' order.  `row` is
\* the index of the article whose title, content, date, source and link the
\* result carries.
Results(query, articles, similarities, candidates) ==
    LET most_recent_idx == MostRecentIdx(articles, candidates)
    IN [k \in 1..Len(candidates) |->
          LET idx == candidates[k]
              recency_boost == RecencyBoost(idx, most_recent_idx)
              keyword_boost == KeywordBoost(query, articles[idx].content)
          IN [row |-> idx,
              score |-> BoostedScore(similarities[idx], recency_boost, keyword_boost),
              original_score |-> similarities[idx],
              recency_boost |-> recency_boost,
              keyword_boost |-> keyword_boost]]

\* results.sort(key=lambda x: x['score'], reverse=True): a stable sort, results
\* of equal score keep the order they had.
SortByScore(results) ==
    LET p == CHOOSE q \in Perms(Len(results)) :
                 \A i, j \in 1..Len(results) :
                     i < j => \/ results[q[i]].score > results[q[j]].score
                              \/ /\ results[q[i]].score = results[q[j]].score
                                 /\ q[i] < q[j]
    IN [k \in 1..Len(results) |-> results[p[k]]]

\* results[:top_k]
Truncate(results, top_k) == SubSeq(results, 1, Min(Len(results), top_k))

\* search_articles(query, top_k) over self.articles and the similarities of
\* the query to self.embeddings, `order` being what argsort returned.
search_articles(query, top_k, articles, similarities, order) ==
    IF Len(similarities) = 0 \/ Len(articles) = 0 THEN <<>>
    ELSE LET candidates == Candidates(query, articles, TopIndices(order, top_k))
         IN IF candidates = <<>> THEN <<>>
            ELSE Truncate(SortByScore(Results(query, articles, similarities,
                                              candidates)),
                          top_k)

\* ------------------------------------------------------- train_classifier
\* auto_label_article: the category whose keywords the content hits most,
\* 'other' when it hits none.  Contents 1, 4, .. are about prices, contents
\* 2, 5, .. about production, contents 3, 6, .. hit no keyword.
auto_label_article(content) ==
    CASE content % 3 = 1 -> "price_market"
      [] content % 3 = 2 -> "production"
      [] OTHER -> "other"

Labels(df) == [i \in 1..Len(df) |-> auto_label_article(df[i].content)]

\* le.classes_: LabelEncoder is fitted on every row's category, before the filter.
Classes(labels) == {labels[i] : i \in 1..Len(labels)}

\* valid_mask = [label_counts[l] >= 2 for l in labels]; df = df[valid_mask]
ValidRows(df) ==
    LET labels == Labels(df)
    IN SelectSeq(Indices(df), LAMBDA i : Count(labels, labels[i]) >= 2)

\* The categories of the rows the classifier is fitted on.
FittedLabels(df) ==
    LET labels == Labels(df)
        valid == ValidRows(df)
    IN {labels[valid[k]] : k \in 1..Len(valid)}

\* state.get('metrics', {})
NoMetrics == 0

NoClfFile == [kind |-> "missing", classes |-> {}, fitted |-> {}]
PartialClfFile == [kind |-> "partial", classes |-> {}, fitted |-> {}]
ClfModel(classes, fitted) == [kind |-> "model", classes |-> classes, fitted |-> fitted]
NoLabelsFile == [exists |-> FALSE, classes |-> {}]
NoClfState == [exists |-> FALSE, article_count |-> 0, metrics |-> NoMetrics]
NoClfRun == [done |-> FALSE, force |-> FALSE, min_new |-> 0, path |-> "none",
             completed |-> FALSE, ret |-> NoMetrics]

\* state.get('article_count', 0)
LastCount(state) == IF state.exists THEN state.article_count ELSE 0

\* A skip that returns no metrics.
LastMetricsNone(state) == NoMetrics

\* state.get('metrics', {})
LastMetrics(state) == IF state.exists THEN state.metrics ELSE NoMetrics

\* A gate that skips on "no more than" min_new_articles new articles.
ShouldSkipAtThreshold(force, min_new_articles, current_count, file, state) ==
    /\ ~force
    /\ file.kind # "missing"
    /\ current_count - LastCount(state) <= min_new_articles

\* if not force and os.path.exists(CLASSIFIER_PATH): if new_articles < min_new_articles
ShouldSkip(force, min_new_articles, current_count, file, state) ==
    /\ ~force
    /\ file.kind # "missing"
    /\ current_count - LastCount(state) < min_new_articles

\* The count a training records: len(df) after df = df[valid_mask].
RecordedCount(df) == Len(ValidRows(df))

\* The ensemble's LogisticRegression needs samples of two classes at least:
\* with fewer among the kept rows the split or the fit raises.
FitCanSucceed(df) == Cardinality(FittedLabels(df)) >= 2

\* Where a retraining ends: with its three files written, or with an exception
\* in the split or the fit, in the dump of classifier.pkl (opened with 'wb'),
\* before labels.json, or before classifier_state.json.
Outcomes == {"ok", "fit_raises", "dump_raises", "labels_raises", "state_raises"}

Retrain(df, outcome, metrics) ==
    LET model == ClfModel(Classes(Labels(df)), FittedLabels(df))
    IN /\ outcome # "fit_raises" => FitCanSucceed(df)
       /\ clfFile' = CASE outcome = "fit_raises" -> clfFile
                       [] outcome = "dump_raises" -> PartialClfFile
                       [] OTHER -> model
       /\ labelsFile' = IF outcome \in {"ok", "state_raises"}
                        THEN [exists |-> TRUE, classes |-> Classes(Labels(df))]
                        ELSE labelsFile
       /\ clfState' = IF outcome = "ok"
                      THEN [exists |-> TRUE, article_count |-> RecordedCount(df),
                            metrics |-> metrics]
                      ELSE clfState

TrainClassifierCall(force, min_new_articles, outcome, metrics) ==
    /\ IF ~storeExists
       THEN /\ clfRun' = [done |-> TRUE, force |-> force, min_new |-> min_new_articles,
                          path |-> "no_store", completed |-> TRUE, ret |-> NoMetrics]
            /\ UNCHANGED <<clfFile, labelsFile, clfState>>
       ELSE IF ShouldSkip(force, min_new_articles, Len(store), clfFile, clfState)
       THEN /\ clfRun' = [done |-> TRUE, force |-> force, min_new |-> min_new_articles,
                          path |-> "skip", completed |-> TRUE,
                          ret |-> LastMetrics(clfState)]
            /\ UNCHANGED <<clfFile, labelsFile, clfState>>
       ELSE /\ Retrain(store, outcome, metrics)
            /\ clfRun' = [done |-> TRUE, force |-> force, min_new |-> min_new_articles,
                          path |-> "retrain", completed |-> outcome = "ok",
                          ret |-> IF outcome = "ok" THEN metrics ELSE NoMetrics]
    /\ lastOp' = "train_classifier"

TrainClassifier(force, min_new_articles, outcome, metrics) ==
    /\ TrainClassifierCall(force, min_new_articles, outcome, metrics)
    /\ UNCHANGED <<extVars, storeVars, embVars, chatVars, cluVars>>

\* ---------------------------------------------------------- classify_query
\* LabelEncoder and the classifier both keep their classes sorted: le.classes_
\* the names of every category labelled, classifier.classes_ the codes of the
\* categories it was fitted on.  Column k of predict_proba is the k-th fitted
\* category.
CategoryOrder == <<"other", "price_market", "production">>

SortedLabels(categories) == SelectSeq(CategoryOrder, LAMBDA c : c \in categories)

\* le.inverse_transform([pred_idx])[0]: the pred_idx-th name of le.classes_
\* (columns are counted from 1 here).
InverseTransform(classes, pred_idx) == SortedLabels(classes)[pred_idx]

Confidences == {60, 90}

GeneralCategory == [category |-> "general", confidence |-> 50]

\* classify_query on a chatbot loaded from the classifier file: pred_idx is
\* the column of the highest probability, confidence that probability.
classify_query(file, pred_idx, confidence) ==
    IF file.kind = "missing" THEN GeneralCategory
    ELSE [category |-> InverseTransform(file.classes, pred_idx),
          confidence |-> confidence]

\* A chatbot is created, load_models reads classifier.pkl (pickle.load of a
\* truncated file raises there), classify_query answers.
ClassifyQuery(pred_idx, confidence) ==
    /\ clfFile.kind = "model" =>
          pred_idx <= Cardinality(clfFile.fitted) /\ confidence \in Confidences
    /\ clfFile.kind # "model" => pred_idx = 1 /\ confidence = GeneralCategory.confidence
    /\ ranking' = IF clfFile.kind = "partial"
                  THEN [pc |-> "raised"]
                  ELSE [pc |-> "classified", pred_idx |-> pred_idx,
                        proba |-> confidence,
                        answer |-> classify_query(clfFile, pred_idx, confidence)]
    /\ lastOp' = "classify_query"
    /\ UNCHANGED <<storeVars, embVars, chatVars, clfVars, cluVars,
                   pipeline, entFile, persist, scrapers>>

\* --------------------------------------------------------- create_clusters
\* A digest over the whole contents instead of their first 200 characters.
FullContentHash(df) == [i \in 1..Len(df) |-> df[i].content]

\* md5 of '|'.join(df['content'].str[:200]): one digest per sequence of prefixes.
get_data_hash(df) == [i \in 1..Len(df) |-> Prefix200(df[i].content)]

\* 'data_hash': current_hash of the state a clustering saves.
StateDataHash(df) == get_data_hash(df)

\* create_clusters(n_clusters=10, ...)
DefaultClusters == 10

\* cluster_info: what KMeans (random_state=42) and the topic words make of the
\* embeddings and of the first 200 characters of each content.
ClusterInfo(df, embeddings) ==
    [n_clusters |-> Min(DefaultClusters, Len(embeddings)),
     embeddings |-> embeddings,
     prefixes |-> [i \in 1..Len(df) |-> Prefix200(df[i].content)]]

NoClusterInfo == [n_clusters |-> 0, embeddings |-> <<>>, prefixes |-> <<>>]
NoCluFile == [kind |-> "missing", info |-> NoClusterInfo]
PartialCluFile == [kind |-> "partial", info |-> NoClusterInfo]
NoCluState == [exists |-> FALSE, data_hash |-> <<>>, n_articles |-> 0,
               n_clusters |-> 0, cluster_info |-> NoClusterInfo]
NoCluRun == [done |-> FALSE, force |-> FALSE, path |-> "none", completed |-> FALSE,
             ret |-> NoClusterInfo, rerun |-> FALSE]

\* if not force and os.path.exists(CLUSTERS_PATH): if state.get('data_hash') == current_hash
ClusterShouldSkip(force, current_hash, file, state) ==
    /\ ~force
    /\ file.kind # "missing"
    /\ state.exists
    /\ state.data_hash = current_hash

\* The embeddings clustered: the ordered array of embeddings.pkl when the file
\* exists, else the encoding of the contents' first 500 characters.
ClusterEmbeddings(df) ==
    IF embFile.kind # "missing" THEN embFile.ordered
    ELSE Encode([i \in 1..Len(df) |-> EmbedText(NoTitle, df[i].content)])

\* Where a reclustering ends: with clusters.pkl and cluster_state.json written,
\* or with an exception before writing (KMeans, PCA with fewer than 2 samples),
\* in the dump of clusters.pkl (opened with 'wb'), or before the state file.
ClusterOutcomes == {"ok", "cluster_raises", "dump_raises", "state_raises"}

Recluster(df, force, rerun, outcome) ==
    LET info == ClusterInfo(df, ClusterEmbeddings(df))
    IN /\ outcome # "cluster_raises" => Len(df) >= 2 /\ embFile.kind # "partial"
       /\ cluFile' = CASE outcome = "cluster_raises" -> cluFile
                       [] outcome = "dump_raises" -> PartialCluFile
                       [] OTHER -> [kind |-> "clusters", info |-> info]
       /\ cluState' = IF outcome = "ok"
                      THEN [exists |-> TRUE, data_hash |-> StateDataHash(df),
                            n_articles |-> Len(df), n_clusters |-> info.n_clusters,
                            cluster_info |-> info]
                      ELSE cluState
       /\ cluRun' = [done |-> TRUE, force |-> force, path |-> "recluster",
                     completed |-> outcome = "ok",
                     ret |-> IF outcome = "ok" THEN info ELSE NoClusterInfo,
                     rerun |-> rerun]

\* This call follows a completed reclustering at once.
IsRerun == lastOp = "create_clusters" /\ cluRun.path = "recluster" /\ cluRun.completed

CreateClustersCall(force, outcome) ==
    /\ IF ~storeExists
       THEN /\ cluRun' = [done |-> TRUE, force |-> force, path |-> "no_store",
                          completed |-> TRUE, ret |-> NoClusterInfo,
                          rerun |-> IsRerun]
            /\ UNCHANGED <<cluFile, cluState>>
       ELSE IF ClusterShouldSkip(force, get_data_hash(store), cluFile, cluState)
       THEN /\ cluRun' = [done |-> TRUE, force |-> force, path |-> "skip",
                          completed |-> TRUE, ret |-> cluState.cluster_info,
                          rerun |-> IsRerun]
            /\ UNCHANGED <<cluFile, cluState>>
       ELSE IF embFile.kind \notin {"missing", "partial"}
               /\ Len(embFile.ordered) # Len(store)
       THEN /\ cluRun' = [done |-> TRUE, force |-> force, path |-> "mismatch",
                          completed |-> TRUE, ret |-> NoClusterInfo,
                          rerun |-> IsRerun]
            /\ UNCHANGED <<cluFile, cluState>>
       ELSE Recluster(store, force, IsRerun, outcome)
    /\ lastOp' = "create_clusters"

CreateClusters(force, outcome) ==
    /\ CreateClustersCall(force, outcome)
    /\ UNCHANGED <<extVars, storeVars, embVars, chatVars, clfVars>>

\* ------------------------------------------- run_all_scrapers_parallel
\* ThreadPoolExecutor runs load_and_run_scraper for each scraper; each thread
\* scrapes its site and calls save_articles, that is save_to_csv, on the one
\* articles.csv.  Nothing orders the threads: between the read of the store
\* (lines 300-309) and to_csv (line 319) of one, another may read or write.
MaxScrapers == 2
ScraperIds == 1..MaxScrapers

IdleScraper == [pc |-> "idle", new_df |-> <<>>, combined_df |-> <<>>]
NoScrapers == [s \in ScraperIds |-> IdleScraper]

\* What scraper s found: one article of its site, so under a link of its own.
ScraperBatches(s) == {<<[link |-> s, content |-> c]>> : c \in Contents}

\* The thread has scraped and save_to_csv has read and combined.
ScraperRead(s, new_df) ==
    /\ scrapers[s].pc = "idle"
    /\ scrapers' = [scrapers EXCEPT ![s] = [pc |-> "read", new_df |-> new_df,
                                            combined_df |-> CombinedDf(new_df)]]
    /\ UNCHANGED <<storeVars, embVars, chatVars, clfVars, cluVars, lastOp,
                   ranking, pipeline, entFile, persist>>

\* combined_df.to_csv(csv_file, index=False)
ScraperWrite(s) ==
    /\ scrapers[s].pc = "read"
    /\ storeExists' = TRUE
    /\ store' = scrapers[s].combined_df
    /\ scrapers' = [scrapers EXCEPT ![s].pc = "done"]
    /\ lastOp' = "save_to_csv"
    /\ UNCHANGED <<embVars, chatVars, clfVars, cluVars,
                   ranking, pipeline, entFile, persist>>

\* Every future has completed; the next scheduled run submits the scrapers again.
RunAllScrapersParallel ==
    /\ \A s \in ScraperIds : scrapers[s].pc = "done"
    /\ scrapers' = NoScrapers
    /\ lastOp' = "run_all_scrapers_parallel"
    /\ UNCHANGED <<storeVars, embVars, chatVars, clfVars, cluVars,
                   ranking, pipeline, entFile, persist>>

\* ------------------------------------------------- writes that are denied
\* `denied` is the number of times in a row the file system refuses the write
\* with PermissionError (a lock held by another process).
MaxRetries == 3
SingleAttempt == 1

\* A writer that tries once more than the loop allows.
WriteAttemptsOneMore(denied, attempts_allowed) == Min(denied + 1, attempts_allowed + 1)

\* for attempt in range(max_retries): try the write; except PermissionError:
\* retry, raise at the last attempt.  A write outside a loop is one attempt.
WriteAttempts(denied, attempts_allowed) == Min(denied + 1, attempts_allowed)

NoPersist == [op |-> "none", new_df |-> <<>>, denied |-> 0, attempts |-> 0,
              completed |-> TRUE]

PersistRecord(op, new_df, denied, attempts_allowed) ==
    [op |-> op, new_df |-> new_df, denied |-> denied,
     attempts |-> WriteAttempts(denied, attempts_allowed),
     completed |-> WriteAttempts(denied, attempts_allowed) > denied]

\* combined_df: the store read, the batch appended, duplicates of a link
\* dropped keeping the last; the batch alone when there is no store or when
\* reading it raises (lines 300-314).
CombinedDfWith(new_df, read_raises) ==
    IF storeExists /\ ~read_raises THEN DropDuplicatesKeepLast(store \o new_df)
    ELSE new_df

\* save_to_csv with what can happen to its read and to its write: the file is
\* written once an attempt is not denied, and is as it was when all are.
SaveToCsvWith(new_df, read_raises, denied) ==
    LET record == PersistRecord("articles.csv", new_df, denied, MaxRetries)
    IN /\ read_raises => storeExists
       /\ storeExists' = (storeExists \/ record.completed)
       /\ store' = IF record.completed THEN CombinedDfWith(new_df, read_raises)
                   ELSE store
       /\ persist' = record
       /\ lastOp' = IF record.completed THEN "save_to_csv" ELSE "save_to_csv_raised"
       /\ UNCHANGED <<embVars, chatVars, clfVars, cluVars, ranking, pipeline, entFile, scrapers>>

\* create_embeddings with what can happen to its write: open(EMBEDDINGS_PATH,
\* 'wb') is called once, outside any loop.
WriteEmbeddings(denied) ==
    LET record == PersistRecord("embeddings.pkl", <<>>, denied, SingleAttempt)
    IN /\ IF record.completed THEN CreateEmbeddingsCall(FALSE)
          ELSE CreateEmbeddingsRaisesCall(FALSE)
       /\ persist' = record
       /\ UNCHANGED <<storeVars, chatVars, clfVars, cluVars, ranking, pipeline, entFile, scrapers>>

\* ---------------------------------------------------- extract_all_entities
\* entities.json and ner_processed.json: the records, keyed by str(idx) of the
\* row they were extracted from, and the hashes of the articles already
\* processed.  A record is determined by the title and content it was
\* extracted from, and is modelled by them.  Rows are counted from 1 here,
\* from 0 by pandas.
NoRecords == [idx \in {} |-> get_article_hash(NoTitle, 0)]

NoEntFile == [kind |-> "missing", records |-> NoRecords, processed |-> {}]

\* Where an extraction ends: with both files written, with an exception while
\* entities.json is written (opened with 'w', left truncated), or before
\* ner_processed.json is written.  json.load of a truncated entities.json
\* raises before anything is written.
EntityOutcomes == {"ok", "dump_raises", "processed_raises"}

\* The rows the loop does not skip: the hash is added to processed_hashes as
\* the loop goes, so of several new rows with one hash the first is taken.
NewEntityRows(df, processed_hashes) ==
    {idx \in 1..Len(df) :
        /\ RowHash(df[idx]) \notin processed_hashes
        /\ \A j \in 1..(idx - 1) : RowHash(df[j]) # RowHash(df[idx])}

\* all_entities[str(idx)] = {...} for each of these rows.
StoreRecords(all_entities, df, new_rows) ==
    [idx \in DOMAIN all_entities \cup new_rows |->
        IF idx \in new_rows THEN RowHash(df[idx]) ELSE all_entities[idx]]

ExtractAllEntitiesCall(outcome) ==
    /\ IF ~storeExists \/ entFile.kind = "partial"
       THEN UNCHANGED entFile
       ELSE LET new_rows == NewEntityRows(store, entFile.processed)
                all_entities == StoreRecords(entFile.records, store, new_rows)
                processed_hashes ==
                    entFile.processed \cup {RowHash(store[idx]) : idx \in new_rows}
            IN entFile' = CASE outcome = "ok" ->
                                 [kind |-> "entities", records |-> all_entities,
                                  processed |-> processed_hashes]
                            [] outcome = "dump_raises" ->
                                 [entFile EXCEPT !.kind = "partial"]
                            [] OTHER ->
                                 [entFile EXCEPT !.kind = "entities",
                                                 !.records = all_entities]
    /\ lastOp' = "extract_all_entities"

ExtractAllEntities(outcome) ==
    /\ ExtractAllEntitiesCall(outcome)
    /\ UNCHANGED <<storeVars, embVars, chatVars, clfVars, cluVars,
                   ranking, pipeline, persist, scrapers>>

\* The call ends in an exception.
ExtractAllEntitiesRaises(outcome) ==
    storeExists /\ (entFile.kind = "partial" \/ outcome # "ok")

\* ---------------------------------------------------------- train_all.main
\* main(force) runs four stages, each in its own try/except Exception.
\* pipeline.pc is the stage main is about to run; attempted lists the stages
\* entered so far, raised the stages that ended in an exception.
Stages == <<"embeddings", "classifier", "clusters", "entities">>

NoPipeline == [pc |-> "none", force |-> FALSE, attempted |-> <<>>, raised |-> {}]

DefaultMinNew == 50

StageIndex(stage) == CHOOSE k \in 1..Len(Stages) : Stages[k] = stage

NextStage(stage) ==
    IF StageIndex(stage) = Len(Stages) THEN "done" ELSE Stages[StageIndex(stage) + 1]

\* The exception of a stage leaves main.
AfterStageAbort(stage, raised) == IF raised THEN "aborted" ELSE NextStage(stage)

\* The except clause of a stage prints the error and main goes on.
AfterStage(stage, raised) == NextStage(stage)

StageDone(stage, raised) ==
    /\ pipeline.pc = stage
    /\ pipeline' = [pipeline EXCEPT
                      !.pc = AfterStage(stage, raised),
                      !.attempted = Append(pipeline.attempted, stage),
                      !.raised = IF raised THEN pipeline.raised \cup {stage}
                                 ELSE pipeline.raised]

Main(force) ==
    /\ pipeline.pc \in {"none", "done"}
    /\ pipeline' = [pc |-> Stages[1], force |-> force, attempted |-> <<>>,
                    raised |-> {}]
    /\ lastOp' = "main"
    /\ UNCHANGED <<storeVars, embVars, chatVars, clfVars, cluVars,
                   ranking, entFile, persist, scrapers>>

StageEmbeddings ==
    /\ CreateEmbeddingsCall(FALSE)
    /\ StageDone("embeddings", FALSE)
    /\ UNCHANGED <<storeVars, chatVars, clfVars, cluVars, ranking, entFile, persist, scrapers>>

StageEmbeddingsNoStore ==
    /\ CreateEmbeddingsNoStoreCall
    /\ StageDone("embeddings", FALSE)
    /\ UNCHANGED <<storeVars, chatVars, clfVars, cluVars, ranking, entFile, persist, scrapers>>

StageEmbeddingsRaises(truncated) ==
    /\ CreateEmbeddingsRaisesCall(truncated)
    /\ StageDone("embeddings", TRUE)
    /\ UNCHANGED <<storeVars, chatVars, clfVars, cluVars, ranking, entFile, persist, scrapers>>

StageClassifier(outcome, metrics) ==
    /\ TrainClassifierCall(pipeline.force, DefaultMinNew, outcome, metrics)
    /\ StageDone("classifier", ~clfRun'.completed)
    /\ UNCHANGED <<storeVars, embVars, chatVars, cluVars, ranking, entFile, persist, scrapers>>

StageClusters(outcome) ==
    /\ CreateClustersCall(pipeline.force, outcome)
    /\ StageDone("clusters", ~cluRun'.completed)
    /\ UNCHANGED <<storeVars, embVars, chatVars, clfVars, ranking, entFile, persist, scrapers>>

StageEntities(outcome) ==
    /\ ExtractAllEntitiesCall(outcome)
    /\ StageDone("entities", ExtractAllEntitiesRaises(outcome))
    /\ UNCHANGED <<storeVars, embVars, chatVars, clfVars, cluVars, ranking, persist, scrapers>>

\* ------------------------------------------------------------- initially
NoChat == [pc |-> "new", loaded |-> FALSE, articles |-> <<>>, embeddings |-> <<>>,
           sawPartial |-> FALSE]

InitStore == storeExists = FALSE /\ store = <<>>

InitEmb ==
    /\ embFile \in {MissingFile} \cup
                   {LegacyFile(old) : old \in SeqsUpTo(Vectors, MaxLegacy) \ {<<>>}}
    /\ processedFile = {}
    /\ embPc = "idle"
    /\ embLocal = NoLocal
    /\ embRun = NoEmbRun

InitChat == chat = NoChat /\ searchUsed = {}

InitClf ==
    /\ clfFile = NoClfFile
    /\ labelsFile = NoLabelsFile
    /\ clfState = NoClfState
    /\ clfRun = NoClfRun

InitClu ==
    /\ cluFile = NoCluFile
    /\ cluState = NoCluState
    /\ cluRun = NoCluRun

InitArtifacts ==
    InitStore /\ InitEmb /\ InitChat /\ InitClf /\ InitClu /\ lastOp = "init"

NoRanking == [pc |-> "none", query |-> <<>>, top_k |-> 0, articles |-> <<>>,
              similarities |-> <<>>, results |-> <<>>]

Init ==
    /\ InitArtifacts
    /\ ranking = NoRanking
    /\ pipeline = NoPipeline
    /\ entFile = NoEntFile
    /\ persist = NoPersist
    /\ scrapers = NoScrapers

Batches == SeqsUpTo(Rows, MaxBatch) \ {<<>>}

EmbBatches == {b \in Batches : \A i \in 1..Len(b) : b[i].link <= MaxEmbLinks}

\* The scheduled job: scrapers save, then the embedding pipeline runs.
NextEmb ==
    \/ \E new_df \in EmbBatches : SaveToCsv(new_df)
    \/ \E force_rebuild \in BOOLEAN : CreateEmbeddings(force_rebuild)

SpecEmb == Init /\ [][NextEmb]_vars

\* The web application answers queries while scrapers save and the embedding
\* pipeline runs: no lock orders them.
ConcBatches == {b \in EmbBatches : \A i \in 1..Len(b) : b[i].content <= MaxConcContents}

InitNoLegacy == Init /\ embFile = MissingFile

NextConc ==
    \/ \E new_df \in ConcBatches : SaveToCsv(new_df)
    \/ EmbBegin
    \/ EmbLoadRaises
    \/ EmbOpen
    \/ EmbDump
    \/ EmbSaveProcessed
    \/ EmbRaise
    \/ ChatLoadArticles
    \/ ChatLoadEmbeddings
    \/ SearchArticles

SpecConc == InitNoLegacy /\ [][NextConc]_vars

\* The training job: scrapers save articles under new links, the trainer runs.
FreshBatches == {b \in Batches : \A i \in 1..Len(b) : b[i].link = Len(store) + i}

NextClf ==
    \/ \E new_df \in FreshBatches : SaveToCsv(new_df)
    \/ \E force \in BOOLEAN, min_new_articles \in 1..MaxMinNew,
          outcome \in Outcomes, metrics \in 1..MaxMetric :
            TrainClassifier(force, min_new_articles, outcome, metrics)

SpecClf == InitNoLegacy /\ [][NextClf]_vars

\* The trainer runs as scrapers save, and queries are classified by chatbots
\* started at any moment.
NextClassify ==
    \/ \E new_df \in FreshBatches : SaveToCsv(new_df)
    \/ \E force \in BOOLEAN, outcome \in Outcomes :
          TrainClassifier(force, 1, outcome, 1)
    \/ \E pred_idx \in 1..Len(CategoryOrder),
          confidence \in Confidences \cup {GeneralCategory.confidence} :
          ClassifyQuery(pred_idx, confidence)

SpecClassify == InitNoLegacy /\ [][NextClassify]_vars

\* The training job of train_all: scrapers save, the embedding pipeline runs,
\* the cluster builder runs.
NextClu ==
    \/ \E new_df \in ConcBatches : SaveToCsv(new_df)
    \/ CreateEmbeddings(FALSE)
    \/ \E force \in BOOLEAN, outcome \in ClusterOutcomes : CreateClusters(force, outcome)

SpecClu == InitNoLegacy /\ [][NextClu]_vars

\* The training job of train_all.main, run again and again with or without
\* --force, while scrapers save articles under new links.
PipeBatches == {b \in ConcBatches : \A i \in 1..Len(b) : b[i].link = Len(store) + i}

NextPipe ==
    \/ \E new_df \in PipeBatches : SaveToCsv(new_df)
    \/ \E force \in BOOLEAN : Main(force)
    \/ StageEmbeddings
    \/ StageEmbeddingsNoStore
    \/ \E truncated \in BOOLEAN : StageEmbeddingsRaises(truncated)
    \/ \E outcome \in Outcomes, metrics \in 1..MaxMetric :
          StageClassifier(outcome, metrics)
    \/ \E outcome \in ClusterOutcomes : StageClusters(outcome)
    \/ \E outcome \in EntityOutcomes : StageEntities(outcome)

SpecPipe == InitNoLegacy /\ [][NextPipe]_vars

\* The entity extractor runs again and again while scrapers save.
NextEnt ==
    \/ \E new_df \in EmbBatches : SaveToCsv(new_df)
    \/ \E outcome \in EntityOutcomes : ExtractAllEntities(outcome)

SpecEnt == InitNoLegacy /\ [][NextEnt]_vars

\* The chatbot process starts and answers queries at any moment of the
\* scheduled job: before the first save, before the first embedding run,
\* after a run that failed.
NextMissing ==
    \/ \E new_df \in ConcBatches : SaveToCsv(new_df)
    \/ CreateEmbeddings(FALSE)
    \/ \E truncated \in BOOLEAN : CreateEmbeddingsRaises(truncated)
    \/ ChatSearch
    \/ \E relevant \in BOOLEAN : WebSearch(relevant)

SpecMissing == InitNoLegacy /\ [][NextMissing]_vars

\* The scrapers of the fast mode, run after run.
NextPar ==
    \/ \E s \in ScraperIds : \E new_df \in ScraperBatches(s) : ScraperRead(s, new_df)
    \/ \E s \in ScraperIds : ScraperWrite(s)
    \/ RunAllScrapersParallel

SpecPar == InitNoLegacy /\ [][NextPar]_vars

\* A query against a loaded chatbot.  The catalogue of queries and contents:
QueryRigCount == <<"rig", "count">>
QueryOpecRigCount == <<"opec", "rig", "count">>
QueryOilPrices == <<"what", "happened", "to", "oil", "prices">>
QueryGasNews == <<"gas", "pipeline", "news">>
QueryOpecCut == <<"opec", "cut", "oil", "output", "brent", "rose">>
Queries == {QueryRigCount, QueryOpecRigCount, QueryOilPrices, QueryGasNews,
            QueryOpecCut}

TextRigs == <<"active", "rigs", "fell">>
TextOpec == <<"opec", "meets">>
TextBrent == <<"brent", "crude", "fell", "2%", "to", "$70", "a", "barrel">>
TextGas == <<"gas", "pipeline", "opens">>
TextOpecCut == <<"opec+", "cut", "oil", "output", "brent", "rose">>
Texts == {TextRigs, TextOpec, TextBrent, TextGas, TextOpecCut}

MaxRankRows == 2      \* articles, and embeddings, of a ranked corpus
MaxTopK == 2          \* largest top_k asked for
\* A date can lie after now: standardize_date checks no date against the
\* clock and reads 12/03/2026 as the 3rd of December.
Tomorrow == -1
Today == 0
ThisWeek == 3
LastMonth == 30
Dates == {NoDate, Tomorrow, Today, ThisWeek, LastMonth}
Similarities == {-20, 50, 90, 95}

Articles == [content : Texts, date : Dates]

RankInputs ==
    [pc : {"called"}, query : Queries, top_k : 1..MaxTopK,
     articles : SeqsUpTo(Articles, MaxRankRows),
     similarities : SeqsUpTo(Similarities, MaxRankRows),
     results : {<<>>}]

InitRank ==
    /\ InitArtifacts
    /\ embFile = MissingFile
    /\ ranking \in RankInputs
    /\ pipeline = NoPipeline
    /\ entFile = NoEntFile
    /\ persist = NoPersist
    /\ scrapers = NoScrapers

RankQuery ==
    /\ ranking.pc = "called"
    /\ \E order \in ArgsortDescending(ranking.similarities) :
          ranking' = [ranking EXCEPT
                         !.pc = "returned",
                         !.results = search_articles(ranking.query, ranking.top_k,
                                                     ranking.articles,
                                                     ranking.similarities, order)]
    /\ UNCHANGED <<storeVars, embVars, chatVars, clfVars, cluVars, lastOp,
                   pipeline, entFile, persist, scrapers>>

NextRank == RankQuery

SpecRank == InitRank /\ [][NextRank]_vars

\* A gated query against corpora of up to six articles, one of them at most
\* about the topic, so that the candidates taken by base score can all fail
\* the gate.
MaxStarveRows == 6
StarveTexts == {TextRigs, TextGas}
StarveSimilarities == {50, 90}

StarveInputs ==
    {r \in [pc : {"called"}, query : {QueryRigCount}, top_k : {1},
            articles : SeqsUpTo([content : StarveTexts, date : {NoDate}],
                                MaxStarveRows),
            similarities : SeqsUpTo(StarveSimilarities, MaxStarveRows),
            results : {<<>>}] :
        /\ Len(r.articles) = Len(r.similarities)
        /\ Len(r.articles) >= 1
        /\ Cardinality({i \in 1..Len(r.articles) :
                           r.articles[i].content = TextRigs}) <= 1}

InitStarve ==
    /\ InitArtifacts
    /\ embFile = MissingFile
    /\ ranking \in StarveInputs
    /\ pipeline = NoPipeline
    /\ entFile = NoEntFile
    /\ persist = NoPersist
    /\ scrapers = NoScrapers

SpecStarve == InitStarve /\ [][NextRank]_vars

\* The end-to-end scenario: two articles with the Brent sentence, one dated
\* today and one a month ago, and one article that is not about oil prices, in
\* any row order, asked "What happened to oil prices?" with the default top_k.
DefaultTopK == 5
BrentToday == [content |-> TextBrent, date |-> Today]
BrentLastMonth == [content |-> TextBrent, date |-> LastMonth]
Unrelated == [content : {TextGas, TextOpec, TextRigs}, date : Dates]

ScenarioCorpora ==
    {corpus \in [1..3 -> {BrentToday, BrentLastMonth} \cup Unrelated] :
        /\ \E i \in 1..3 : corpus[i] = BrentToday
        /\ \E i \in 1..3 : corpus[i] = BrentLastMonth
        /\ \E i \in 1..3 : corpus[i] \in Unrelated}

ScenarioInputs ==
    [pc : {"called"}, query : {QueryOilPrices}, top_k : {DefaultTopK},
     articles : ScenarioCorpora,
     similarities : [1..3 -> Similarities],
     results : {<<>>}]

InitScenario ==
    /\ InitArtifacts
    /\ embFile = MissingFile
    /\ ranking \in ScenarioInputs
    /\ pipeline = NoPipeline
    /\ entFile = NoEntFile
    /\ persist = NoPersist
    /\ scrapers = NoScrapers

SpecScenario == InitScenario /\ [][NextRank]_vars

\* Scrapers save batches of up to two rows, which may repeat a link, while the
\* store may fail to be read and may be locked.
MaxStoreBatch == 2    \* articles in one save_to_csv call
MaxDenied == 3        \* refusals in a row of a write

StoreBatches ==
    SeqsUpTo({r \in Rows : r.link <= MaxEmbLinks /\ r.content <= MaxConcContents},
             MaxStoreBatch) \ {<<>>}

NextStore ==
    \E new_df \in StoreBatches, read_raises \in BOOLEAN, denied \in 0..MaxDenied :
        SaveToCsvWith(new_df, read_raises, denied)

SpecStore == InitNoLegacy /\ [][NextStore]_vars

\* The scheduled job while files may be locked: scrapers save, then the
\* embedding pipeline runs.
NextPersist ==
    \/ \E new_df \in ConcBatches, denied \in 0..MaxDenied :
          SaveToCsvWith(new_df, FALSE, denied)
    \/ \E denied \in 0..MaxDenied : WriteEmbeddings(denied)

SpecPersist == InitNoLegacy /\ [][NextPersist]_vars

\* ------------------------------------------------------- embedding claims
Hashes == {get_article_hash(NoTitle, c) : c \in Contents}

\* The step is a whole incremental run over a persisted hash-indexed map (an
\* absent file is the map with no hash).
IncrementalRunStep ==
    /\ lastOp' = "create_embeddings"
    /\ ~embRun'.force
    /\ embFile.kind \in {"hash", "missing"}

RowsOf(df, h) == {i \in 1..Len(df) : RowHash(df[i]) = h}

NewRows(df, cached) == {i \in 1..Len(df) : RowHash(df[i]) \notin cached}

\* C1 as stated: an incremental run over N cached hashes and M new articles
\* performs exactly M embedding computations, one per new hash, and none for a
\* cached hash.
C1_OnePerNewHash ==
    [][IncrementalRunStep =>
         /\ Len(embRun'.encoded) = Cardinality(NewRows(store, DOMAIN embFile.byHash))
         /\ \A h \in Hashes :
               Count(embRun'.encoded, h) =
                   IF h \in DOMAIN embFile.byHash \/ RowsOf(store, h) = {}
                   THEN 0 ELSE 1]_vars

\* C1 as amended: an incremental run performs exactly one embedding computation
\* per row whose hash is not cached (M computations for M such rows, so a new hash
\* shared by k rows is computed k times), and none for a cached hash.
C1_OnePerNewRow ==
    [][IncrementalRunStep =>
         /\ Len(embRun'.encoded) = Cardinality(NewRows(store, DOMAIN embFile.byHash))
         /\ \A h \in Hashes :
               Count(embRun'.encoded, h) =
                   IF h \in DOMAIN embFile.byHash
                   THEN 0 ELSE Cardinality(RowsOf(store, h))]_vars

\* A run, over a hash-indexed map, of a store holding a cached article and a
\* new one.
C1_Witness ==
    /\ lastOp = "create_embeddings"
    /\ ~embRun.force
    /\ embRun.beforeKind = "hash"
    /\ Len(embRun.encoded) = 1
    /\ Len(store) = 2
    /\ store[1].content # store[2].content

Aligned(df, file) ==
    /\ file.kind = "hash"
    /\ Len(file.ordered) = Len(df)
    /\ \A i \in 1..Len(df) :
          file.ordered[i] = IF RowHash(df[i]) \in DOMAIN file.byHash
                            THEN file.byHash[RowHash(df[i])]
                            ELSE ZeroVector

\* C2: after every completed run the persisted ordered array has one entry per
\* store row, entry i being the hash-indexed embedding of row i's hash (or the
\* zero vector when the map does not hold that hash).
C2_OrderAligned == lastOp = "create_embeddings" => Aligned(store, embFile)

\* A run with no new article over a legacy file and two rows of equal content.
C2_Witness ==
    /\ lastOp = "create_embeddings"
    /\ embRun.beforeKind = "legacy"
    /\ embRun.encoded = <<>>
    /\ Len(store) = 2
    /\ store[1].content = store[2].content

\* C6: a run that follows a completed run over the same store leaves the
\* hash-indexed map, the ordered array and the processed-hash set as they were.
C6_Idempotent ==
    [][(lastOp' = "create_embeddings" /\ embRun'.repeat /\ ~embRun'.force) =>
         UNCHANGED <<embFile, processedFile>>]_vars

\* The second of two runs over a store that has a stale cached hash.
C6_Witness ==
    /\ lastOp = "create_embeddings"
    /\ embRun.repeat
    /\ ~embRun.force
    /\ Len(store) = 2
    /\ \E h \in DOMAIN embFile.byHash : \A i \in 1..Len(store) : RowHash(store[i]) # h

\* ----------------------------------------------------- concurrency claims
\* C3: whenever the ranker serves a query, the embedding it uses at index i is
\* the embedding of the article at row i of its Article Store snapshot.
C3_RankerAligned ==
    \A used \in searchUsed :
        used.vector = EncodeOne(EmbedText(NoTitle, used.row.content))

\* C4: a reader running beside a pipeline run never observes a partially
\* written artifact file.
C4_NoPartialRead == ~chat.sawPartial

\* C5: after a pipeline stage has failed, the artifact persisted by the
\* previous successful run is still loadable.
C5_FailureKeepsArtifact ==
    (embPc = "raised" /\ embLocal.beforeKind = "hash") => embFile.kind = "hash"

\* C16: an artifact file that is not a complete pickle is caught where it is
\* loaded and treated as an empty cache: the embedding run that finds it goes
\* on (it does not end in the exception of the load), and load_models does
\* not raise on it.
C16_CorruptIsEmptyCache ==
    /\ ~(embPc = "raised" /\ embLocal.beforeKind = "partial")
    /\ ~(chat.sawPartial /\ chat.pc = "new")

\* ------------------------------------------------------------ store claims
\* C17: a write that is refused is tried again, a bounded number of times; the
\* run fails only when every attempt was refused, and once an attempt is not
\* refused the file is written and the run completes.
C17_WriteRetried ==
    persist.op # "none" =>
        /\ persist.attempts <= MaxRetries
        /\ persist.denied >= 1 => persist.attempts >= 2
        /\ (persist.denied < MaxRetries) => persist.completed

LinksOf(df) == {df[i].link : i \in 1..Len(df)}

LastOf(df, link) ==
    df[CHOOSE i \in 1..Len(df) :
          /\ df[i].link = link
          /\ \A j \in (i + 1)..Len(df) : df[j].link # link]

\* C19: after every save_to_csv call that wrote the store, no two rows of the
\* store have the same link, and the row of each link of the batch is the last
\* one the batch has for it.
C19_LinkUnique ==
    (lastOp = "save_to_csv" /\ persist.op = "articles.csv") =>
        /\ \A i, j \in 1..Len(store) : store[i].link = store[j].link => i = j
        /\ \A link \in LinksOf(persist.new_df) :
              \E i \in 1..Len(store) : store[i] = LastOf(persist.new_df, link)

\* C20: a save_to_csv call removes no article: every link of the store before
\* the call is a link of the store after it.
C20_NeverRemoves ==
    [][LinksOf(store) \subseteq LinksOf(store')]_vars

\* ---------------------------------------------------------- ranker claims
Returned == ranking.pc = "returned"

ResultContent(k) == ranking.articles[ranking.results[k].row].content

\* C11: every record returned for a query that matches gated topics has a
\* content holding at least one required term of each topic the query matches
\* (so of the rig-count list whenever the query holds "rig count"), and the
\* result is empty when no article passes.
C11_GateEachTopic ==
    Returned =>
        \A k \in 1..Len(ranking.results) :
            /\ MatchesRig(ranking.query) =>
                   \E term \in RigTerms : Contains(ResultContent(k), term)
            /\ MatchesPrice(ranking.query) =>
                   \E term \in PriceTerms : Contains(ResultContent(k), term)
            /\ MatchesOpec(ranking.query) =>
                   \E term \in OpecTerms : Contains(ResultContent(k), term)

\* C12: in every returned record the keyword boost is 0.05 per distinct query
\* keyword found in the content, capped at 0.20, the recency boost is 0 or
\* 0.10, and at most one record of a result list has the recency boost.
C12_BoostBounds ==
    Returned =>
        /\ \A k \in 1..Len(ranking.results) :
              LET found == {kw \in QueryKeywords(ranking.query) :
                               Contains(ResultContent(k), <<kw>>)}
              IN /\ ranking.results[k].keyword_boost >= 0
                 /\ ranking.results[k].keyword_boost <= 20
                 /\ ranking.results[k].keyword_boost =
                        IF Cardinality(found) >= 4 THEN 20 ELSE 5 * Cardinality(found)
                 /\ ranking.results[k].recency_boost \in {0, 10}
        /\ Cardinality({k \in 1..Len(ranking.results) :
                           ranking.results[k].recency_boost = 10}) <= 1

\* Two records of articles both dated within the window, one with the recency
\* boost, one whose content holds more than four of the query's keywords.
C12_Witness ==
    /\ Returned
    /\ Len(ranking.results) = 2
    /\ \A i \in 1..2 : ranking.articles[i].date \in {Today, ThisWeek}
    /\ \E k \in 1..2 : ranking.results[k].recency_boost = 10
    /\ \E k \in 1..2 :
          /\ KeywordMatches(ranking.query, ResultContent(k)) > 4
          /\ ranking.results[k].keyword_boost = 20

\* C13: the final score of every returned record lies in [0, 1], whatever the
\* base score, negative similarities included.
C13_ScoreInUnitInterval ==
    Returned =>
        \A k \in 1..Len(ranking.results) :
            /\ ranking.results[k].score >= 0
            /\ ranking.results[k].score <= 100

\* C14: the returned list is sorted by final score descending, records of equal
\* final score by base score descending, records equal in both by row order,
\* earlier row first; it has at most top_k records, each with its base score.
C14_SortedWithTieBreaks ==
    Returned =>
        /\ Len(ranking.results) <= ranking.top_k
        /\ \A k \in 1..Len(ranking.results) :
              ranking.results[k].original_score =
                  ranking.similarities[ranking.results[k].row]
        /\ \A i, j \in 1..Len(ranking.results) :
              i < j =>
                LET a == ranking.results[i]
                    b == ranking.results[j]
                IN \/ a.score > b.score
                   \/ a.score = b.score /\ a.original_score > b.original_score
                   \/ /\ a.score = b.score
                      /\ a.original_score = b.original_score
                      /\ a.row < b.row

RowOf(article) == CHOOSE i \in 1..Len(ranking.articles) : ranking.articles[i] = article

ResultOf(article) ==
    CHOOSE r \in {ranking.results[k] : k \in 1..Len(ranking.results)} :
        r.row = RowOf(article)

ResultRows == {ranking.results[k].row : k \in 1..Len(ranking.results)}

\* C15 as stated: in the scenario the result is exactly the two articles with
\* the Brent sentence, the one dated today has the recency boost and is ranked
\* first, and the unrelated article is not in the result, whatever the base
\* scores of the three articles.
C15_TodayRanksFirst ==
    Returned =>
        /\ Len(ranking.results) = 2
        /\ ResultRows = {RowOf(BrentToday), RowOf(BrentLastMonth)}
        /\ ranking.results[1].row = RowOf(BrentToday)
        /\ ranking.results[1].recency_boost = 10

\* C15 as amended: the result is exactly the two articles with the Brent
\* sentence, the one dated today has the recency boost and the older one has
\* none, the unrelated article is not in the result, and of the two the one
\* with the greater final score is ranked first.
C15_ScenarioResult ==
    Returned =>
        /\ Len(ranking.results) = 2
        /\ ResultRows = {RowOf(BrentToday), RowOf(BrentLastMonth)}
        /\ ResultOf(BrentToday).recency_boost = 10
        /\ ResultOf(BrentLastMonth).recency_boost = 0
        /\ ResultOf(BrentToday).score > ResultOf(BrentLastMonth).score =>
               ranking.results[1].row = RowOf(BrentToday)
        /\ ResultOf(BrentToday).score < ResultOf(BrentLastMonth).score =>
               ranking.results[1].row = RowOf(BrentLastMonth)

\* The scenario answered with today's article first although its base score
\* is the lower one, the unrelated article having a higher one.
C15_Witness ==
    /\ Returned
    /\ ranking.query = QueryOilPrices
    /\ Len(ranking.articles) = 3
    /\ Len(ranking.results) = 2
    /\ ranking.results[1].row = RowOf(BrentToday)
    /\ ranking.results[1].original_score < ranking.results[2].original_score
    /\ \E i \in 1..3 : /\ ranking.articles[i] \in Unrelated
                       /\ ranking.similarities[i] > ranking.results[1].original_score

\* ------------------------------------------------------- classifier claims
TrainStep == lastOp' = "train_classifier" /\ clfRun'.path \in {"skip", "retrain"}

\* C7: a call of train_classifier over an existing store takes the RETRAIN path
\* if and only if force is requested, or no classifier artifact exists, or the
\* current article count minus the count recorded at the last training is at
\* least min_new_articles; otherwise it takes the SKIP path.
C7_RetrainIff ==
    [][TrainStep =>
         (clfRun'.path = "retrain" <=>
             \/ clfRun'.force
             \/ clfFile.kind = "missing"
             \/ Len(store) - LastCount(clfState) >= clfRun'.min_new)]_vars

\* A skip decided by the count alone: one article more than at the last
\* training, against a threshold of two.
C7_Witness ==
    /\ lastOp = "train_classifier"
    /\ clfRun.path = "skip"
    /\ clfState.exists
    /\ Len(store) - clfState.article_count = 1
    /\ clfRun.min_new = 2

\* C8: on the SKIP path train_classifier returns the last persisted metrics and
\* leaves classifier.pkl, labels.json and classifier_state.json unchanged.
C8_SkipWritesNothing ==
    [][(TrainStep /\ clfRun'.path = "skip") =>
         /\ clfRun'.ret = IF clfState.exists THEN clfState.metrics ELSE NoMetrics
         /\ UNCHANGED <<clfFile, labelsFile, clfState>>]_vars

\* A skip that returns the metrics of an earlier training.
C8_Witness ==
    /\ lastOp = "train_classifier"
    /\ clfRun.path = "skip"
    /\ clfState.exists
    /\ clfRun.ret = clfState.metrics
    /\ Len(store) > clfState.article_count

\* C9: after every RETRAIN the persisted training state records the number of
\* articles in the Article Store at that run.
C9_CountIsCurrent ==
    (lastOp = "train_classifier" /\ clfRun.path = "retrain" /\ clfRun.completed) =>
        clfState.article_count = Len(store)

\* ---------------------------------------------------------- cluster claims
\* C10: create_clusters skips entirely (both files unchanged, the stored cluster
\* info returned) when force is false, a cluster artifact exists and the digest
\* of the corpus equals the stored one; a completed reclustering persists the
\* digest of the corpus it clustered; and the run that follows a completed
\* reclustering at once, unforced, skips.
C10_SkipOnSameHash ==
    [][lastOp' = "create_clusters" =>
         /\ (/\ storeExists
             /\ ~cluRun'.force
             /\ cluFile.kind # "missing"
             /\ cluState.exists
             /\ cluState.data_hash = [i \in 1..Len(store) |-> Prefix200(store[i].content)])
            => (/\ cluRun'.path = "skip"
                /\ cluRun'.ret = cluState.cluster_info
                /\ UNCHANGED <<cluFile, cluState>>)
         /\ (cluRun'.path = "recluster" /\ cluRun'.completed)
            => (/\ cluState'.exists
                /\ cluState'.data_hash =
                       [i \in 1..Len(store) |-> Prefix200(store[i].content)])
         /\ (cluRun'.rerun /\ ~cluRun'.force) => cluRun'.path = "skip"]_vars

\* A skip right after a completed reclustering of two articles or more.
C10_Witness ==
    /\ lastOp = "create_clusters"
    /\ cluRun.rerun
    /\ cluRun.path = "skip"
    /\ cluRun.ret = cluState.cluster_info
    /\ Len(store) >= 2

\* ------------------------------------------------- claims on the pipeline
StagesBefore(pc) ==
    CASE pc = "none" -> <<>>
      [] pc = "done" -> Stages
      [] pc = "aborted" -> <<>>
      [] OTHER -> SubSeq(Stages, 1, StageIndex(pc) - 1)

PipeStep ==
    \/ StageEmbeddings
    \/ StageEmbeddingsNoStore
    \/ \E truncated \in BOOLEAN : StageEmbeddingsRaises(truncated)
    \/ \E outcome \in Outcomes, metrics \in 1..MaxMetric :
          StageClassifier(outcome, metrics)
    \/ \E outcome \in ClusterOutcomes : StageClusters(outcome)
    \/ \E outcome \in EntityOutcomes : StageEntities(outcome)

C21_RecordsAdditive ==
    [][(entFile.kind # "partial" /\ entFile'.kind # "partial") =>
         /\ \A idx \in DOMAIN entFile.records :
               /\ idx \in DOMAIN entFile'.records
               /\ entFile'.records[idx] = entFile.records[idx]
         /\ lastOp' = "extract_all_entities" =>
               \A idx \in DOMAIN entFile'.records :
                  /\ idx <= Len(store')
                  /\ RowHash(store'[idx]) = entFile'.records[idx]]_vars

C23_FailureIsNoResults == ranking.pc \notin {"raised", "web_error"}

\* C24: gating does not starve the candidate pool: a query that has a gate
\* and a corpus in which at least one article passes it get a result that is
\* not empty.
C24_GateDoesNotStarve ==
    (/\ Returned
     /\ RequiredTerms(ranking.query) # {}
     /\ \E i \in 1..Len(ranking.articles) :
           MatchesRequired(ranking.query, ranking.articles[i].content))
    => ranking.results # <<>>

\* The candidates of a corpus that the over-fetch holds whole: the rows that
\* have a similarity and pass the gate.
GatedCandidates ==
    {i \in 1..Min(Len(ranking.articles), Len(ranking.similarities)) :
        MatchesRequired(ranking.query, ranking.articles[i].content)}

\* Dated, and within the RecencyWindowDays days before now.
InWindow(date) == date # NoDate /\ date >= 0 /\ date <= RecencyWindowDays

\* C25: the record with the recency boost is the gated candidate with the
\* latest known date among those published within the 7 days before now; a
\* candidate with no date, or a date outside the window, never has it (so no
\* record has it when no gated candidate is inside the window).
C25_BoostIsLatestInWindow ==
    Returned =>
        \A k \in 1..Len(ranking.results) :
            ranking.results[k].recency_boost > 0 =>
                LET date == ranking.articles[ranking.results[k].row].date
                IN /\ InWindow(date)
                   /\ \A i \in GatedCandidates :
                         InWindow(ranking.articles[i].date) =>
                             date <= ranking.articles[i].date

\* ------------------------------------------- claims on the embedding map
\* C26: a completed run without force_rebuild over a persisted hash-indexed
\* map keeps every entry of it, with the vector it had: entries of articles no
\* longer in the store and of contents that rows repeat included.
C26_EntriesOnlyAdded ==
    [][(lastOp' = "create_embeddings" /\ ~embRun'.force /\ embFile.kind = "hash") =>
         \A h \in DOMAIN embFile.byHash :
            /\ h \in DOMAIN embFile'.byHash
            /\ embFile'.byHash[h] = embFile.byHash[h]]_vars

\* A run that has added an entry to a map holding the entry of an article no
\* longer in the store and an entry whose vector came from a legacy file and
\* is not the encoding of its content.
C26_Witness ==
    /\ lastOp = "create_embeddings"
    /\ ~embRun.force
    /\ embRun.beforeKind = "hash"
    /\ Len(embRun.encoded) >= 1
    /\ \E h \in DOMAIN embFile.byHash : \A i \in 1..Len(store) : RowHash(store[i]) # h
    /\ \E h \in DOMAIN embFile.byHash :
          embFile.byHash[h] # EncodeOne(EmbedText(NoTitle, h[2]))

\* The step is a whole run that finds a legacy, index-based file and reads it.
LegacyRunStep ==
    /\ lastOp' = "create_embeddings"
    /\ ~embRun'.force
    /\ embFile.kind = "legacy"

BothLengths == Min(Len(embFile.ordered), Len(store))

C28_TopCategoryNamed ==
    [][(lastOp' = "classify_query" /\ clfFile.kind = "model") =>
          /\ ranking'.pc = "classified"
          /\ ranking'.answer.category =
                 SortedLabels(clfFile.fitted)[ranking'.pred_idx]
          /\ ranking'.answer.confidence = ranking'.proba]_vars

\* ------------------------------------------ claims on the parallel scrapers
\* C29: once every scraper of a parallel run has finished, the store holds
\* every article that every scraper saved: no save is lost.
C29_NoSaveLost ==
    (\A s \in ScraperIds : scrapers[s].pc = "done") =>
        \A s \in ScraperIds :
            \A k \in 1..Len(scrapers[s].new_df) :
                \E i \in 1..Len(store) : store[i] = scrapers[s].new_df[k]

\* ------------------------------------------------ claims on repeated training
\* C30: the call that follows a completed RETRAIN at once (the store is as it
\* was), with force false and the same min_new_articles, takes the SKIP path.
C30_NoRepeatedRetrain ==
    [][(/\ lastOp = "train_classifier"
        /\ clfRun.path = "retrain"
        /\ clfRun.completed
        /\ lastOp' = "train_classifier"
        /\ ~clfRun'.force
        /\ clfRun'.min_new = clfRun.min_new)
       => clfRun'.path = "skip"]_vars

====
